---- MODULE Spec2Model ----
(***************************************************************************)
(* Tsunami alert dashboard (src/dashboard): a serial polling thread        *)
(* (DataTransmitter.data_loop) hands pressure samples to the dashboard     *)
(* (Dashboard.new_pressure_data), which appends them to the graph buffers  *)
(* and latches the alarm; the Tk main thread (Dashboard.mainloop) redraws, *)
(* surfaces the alert and runs the user's callbacks.                       *)
(*                                                                         *)
(* Numbers: Python floats are modelled as fixed-point integers, pressure   *)
(* in 1/100 hPa and heights in 1/100 cm; a division rounds down to that    *)
(* resolution.  Time is the session clock time.time() - init_time in whole *)
(* seconds.  An attribute that holds None or a float is a sequence of      *)
(* length 0 or 1.                                                          *)
(***************************************************************************)
EXTENDS Integers, Sequences, FiniteSets

(* ------------------------------ bounds -------------------------------- *)

\* most samples the producer delivers in one run
MaxSamples == 3

\* the session clock stops here
MaxTime == 10
MaxSessionTime == 15

\* seconds by which the session clock is seen to advance
ClockSteps == {5}

\* pressure readings the sensor sends (1/100 hPa)
Pressures == {101325, 103325}

\* calls on a unit in isolation: longest buffer, latest timestamp, values
MaxProbeLen == 3
MaxProbeTime == 2
ProbeTimes == 0..MaxProbeTime
ProbeValues == {10, 20}
ProbePressures == {100325, 101324, 101325, 101326, 103325}
ProbeBaselines == {101325, 102325}

\* what serial_COM.readline().decode().strip() yields: a number, an empty
\* line, a line that is no number, or an exception of the transport
SerialLines ==
    [kind : {"float"}, value : Pressures]
        \cup [kind : {"empty", "garbage", "exception"}, value : {0}]

\* what the user types into the alarm threshold entry (1/100 cm for numbers)
ThresholdEntries ==
    [kind : {"float"}, value : {-500, 0, 500}] \cup [kind : {"text"}, value : {0}]

(* ----------------------------- constants ------------------------------ *)

\* calculate_water_height: p (kg m^-3) and g (1/100 m s^-2)
WATER_DENSITY == 997
GRAVITY_FORCE == 981

\* self.after(5000, ...) and the length argument 5 of both calibrations
CalibrationDelay == 5
CalibrationLength == 5

\* the default y limits of the two graphs and the space left round the
\* line (1/100 hPa and 1/100 cm)
pressure_graph_default_ylim == << 99500, 102500 >>
pressure_graph_ylim_buffer == 500
water_height_graph_default_ylim == << 0, 1500 >>
water_height_graph_ylim_buffer == 250

\* self.data_period_var.set(15), and the ends of the slider
\* Both reference lines of the water-height graph are created at -250 cm,
\* below anything the graph shows.
hidden_line_y == -25000

DefaultDataPeriod == 15
MinDataPeriod == 5
MaxDataPeriod == 60

None == << >>
Some(v) == << v >>
Val(o) == o[1]

(* --------------------------- pure functions --------------------------- *)

RECURSIVE SumSeq(_)
SumSeq(s) == IF s = << >> THEN 0 ELSE Head(s) + SumSeq(Tail(s))

\* sum(points) / len(points); None stands for the ZeroDivisionError
Mean(points) ==
    IF Len(points) = 0 THEN None ELSE Some(SumSeq(points) \div Len(points))

\* calculate_water_height without the clamp of lines 617-618
calculate_water_height_unclamped(pressure, calibrated) ==
    ((pressure - calibrated) * 1000000) \div (WATER_DENSITY * GRAVITY_FORCE)

\* Dashboard.calculate_water_height: metres first, clamped at 0, then cm
calculate_water_height(pressure, calibrated) ==
    LET water_height == ((pressure - calibrated) * 1000000)
                            \div (WATER_DENSITY * GRAVITY_FORCE)
    IN  IF water_height < 0 THEN 0 ELSE water_height

\* list[-index]: an IndexError is None
NegIndex(list, index) ==
    IF index >= 1 /\ index <= Len(list)
    THEN Some(list[Len(list) - index + 1]) ELSE None

\* UpdatingGraphFigure.add_data_point, first statement: x_data.append(x)
append_x(xs, x) == Append(xs, x)

\* UpdatingGraphFigure.add_data_point, second statement: y_data.append(y)
append_y(ys, y) == Append(ys, y)

\* add_data_point as it would be with an ordering check before the appends
add_data_point_ordered(xs, ys, x, y) ==
    IF xs # << >> /\ x < xs[Len(xs)]
    THEN [xs |-> xs, ys |-> ys, raised |-> TRUE]
    ELSE [xs |-> append_x(xs, x), ys |-> append_y(ys, y), raised |-> FALSE]

\* UpdatingGraphFigure.add_data_point on an existing subplot: both appends;
\* the method has no other path and raises nothing
add_data_point(xs, ys, x, y) ==
    [xs |-> append_x(xs, x), ys |-> append_y(ys, y), raised |-> FALSE]

\* UpdatingGraphFigure.get_data_point with point_index = -index
get_data_point(xs, ys, index) ==
    IF NegIndex(xs, index) = None \/ NegIndex(ys, index) = None
    THEN << None, None >>
    ELSE << NegIndex(xs, index), NegIndex(ys, index) >>

\* the while loop of UpdatingGraphFigure.get_data_within_last_x from index on
RECURSIVE ScanBack(_, _, _, _, _, _)
ScanBack(xs, ys, min_x, index, xacc, yacc) ==
    IF NegIndex(xs, index) = None \/ NegIndex(ys, index) = None
    THEN << xacc, yacc >>
    ELSE IF Val(NegIndex(xs, index)) < min_x
         THEN << xacc, yacc >>
         ELSE ScanBack(xs, ys, min_x, index + 1,
                       Append(xacc, Val(NegIndex(xs, index))),
                       Append(yacc, Val(NegIndex(ys, index))))

\* get_data_within_last_x with the loop's test turned into <=
get_data_within_last_x_exclusive(xs, ys, min_x) ==
    ScanBack(xs, ys, min_x + 1, 1, << >>, << >>)

RECURSIVE Reverse(_)
Reverse(s) == IF s = << >> THEN << >> ELSE Append(Reverse(Tail(s)), Head(s))

\* get_data_within_last_x with each list turned round before it is returned
get_data_within_last_x_oldest_first(xs, ys, min_x) ==
    LET out == ScanBack(xs, ys, min_x, 1, << >>, << >>)
    IN  << Reverse(out[1]), Reverse(out[2]) >>

\* UpdatingGraphFigure.get_data_within_last_x
get_data_within_last_x(xs, ys, min_x) == ScanBack(xs, ys, min_x, 1, << >>, << >>)

\* the while loop of Dashboard.calibrate_air_pressure from index on
RECURSIVE AirScan(_, _, _, _, _, _)
AirScan(xs, ys, time_since_init, length, index, acc) ==
    LET point == get_data_point(xs, ys, index)
    IN  IF point[1] = None \/ point[2] = None
        THEN acc
        ELSE IF time_since_init - Val(point[1]) <= length
             THEN AirScan(xs, ys, time_since_init, length, index + 1,
                          Append(acc, Val(point[2])))
             ELSE acc


\* data_period_change with int(period) // 5 in place of the rounding
data_period_change_truncating(period) == (period \div 5) * 5

\* Dashboard.data_period_change: round(float(int(period) / 5)) * 5, where
\* round() takes a half to the even neighbour
data_period_change(period) ==
    LET whole == period \div 5
        rest == period % 5
    IN  IF 2 * rest < 5 THEN whole * 5
        ELSE IF 2 * rest > 5 THEN (whole + 1) * 5
        ELSE IF whole % 2 = 0 THEN whole * 5 ELSE (whole + 1) * 5

RECURSIVE MaxSeq(_)
MaxSeq(s) ==
    IF Len(s) = 1 THEN Head(s)
    ELSE IF Head(s) >= MaxSeq(Tail(s)) THEN Head(s) ELSE MaxSeq(Tail(s))

RECURSIVE MinSeq(_)
MinSeq(s) ==
    IF Len(s) = 1 THEN Head(s)
    ELSE IF Head(s) <= MinSeq(Tail(s)) THEN Head(s) ELSE MinSeq(Tail(s))

\* update_statistics, lines 637-653, with the default range dropped: the
\* limits are the window's extremes and the buffer
pressure_ylim_fitted(pressure_ys) ==
    IF Len(pressure_ys) > 0
    THEN Some(<< MinSeq(pressure_ys) - pressure_graph_ylim_buffer,
                 MaxSeq(pressure_ys) + pressure_graph_ylim_buffer >>)
    ELSE None

\* update_statistics, lines 637-653: the y limits handed to
\* pressure_subplot.set_ylim, None when set_ylim is not called
pressure_ylim(pressure_ys) ==
    IF Len(pressure_ys) > 0
    THEN LET max_pressure == MaxSeq(pressure_ys)
             min_pressure == MinSeq(pressure_ys)
             ylim_min ==
                 IF min_pressure - pressure_graph_ylim_buffer
                        < pressure_graph_default_ylim[1]
                 THEN min_pressure - pressure_graph_ylim_buffer
                 ELSE pressure_graph_default_ylim[1]
             ylim_max ==
                 IF max_pressure + pressure_graph_ylim_buffer
                        > pressure_graph_default_ylim[2]
                 THEN max_pressure + pressure_graph_ylim_buffer
                 ELSE pressure_graph_default_ylim[2]
         IN  Some(<< ylim_min, ylim_max >>)
    ELSE None

\* update_statistics, lines 699-706: the y limits handed to
\* water_height_subplot.set_ylim, None when set_ylim is not called
water_height_ylim(water_height_ys) ==
    IF Len(water_height_ys) > 0
    THEN LET max_water_height == MaxSeq(water_height_ys)
             ylim_min == water_height_graph_default_ylim[1]
             ylim_max ==
                 IF max_water_height + water_height_graph_ylim_buffer
                        > water_height_graph_default_ylim[2]
                 THEN max_water_height + water_height_graph_ylim_buffer
                 ELSE water_height_graph_default_ylim[2]
         IN  Some(<< ylim_min, ylim_max >>)
    ELSE None

\* update_statistics, lines 679-692: max_wave_height and
\* current_wave_height, both None unless the window has a water height and
\* the standing water level is set
wave_heights(water_height_ys, standing) ==
    IF Len(water_height_ys) > 0 /\ standing # None
    THEN LET max_wave_height == MaxSeq(water_height_ys) - Val(standing)
             current_wave_height == water_height_ys[1] - Val(standing)
         IN  [max_wave_height |->
                  Some(IF max_wave_height < 0 THEN 0 ELSE max_wave_height),
              current_wave_height |->
                  Some(IF current_wave_height < 0 THEN 0
                       ELSE current_wave_height)]
    ELSE [max_wave_height |-> None, current_wave_height |-> None]

\* Dashboard.update_statistics: the two window queries and what it shows
update_statistics(xs, ys, time_since_init, data_period, standing) ==
    LET pressure == get_data_within_last_x(xs[0], ys[0],
                                           time_since_init - data_period)
        water_height == get_data_within_last_x(xs[1], ys[1],
                                               time_since_init - data_period)
        wave == wave_heights(water_height[2], standing)
    IN  [pressure_xs |-> pressure[1],
         pressure_ys |-> pressure[2],
         water_height_xs |-> water_height[1],
         water_height_ys |-> water_height[2],
         pressure_ylim |-> pressure_ylim(pressure[2]),
         water_height_ylim |-> water_height_ylim(water_height[2]),
         max_wave_height |-> wave.max_wave_height,
         current_wave_height |-> wave.current_wave_height]

(* ------------------------------- state -------------------------------- *)

VARIABLES
    now,                          \* time.time() - init_time
    serial_COM,                   \* DataTransmitter.serial_COM is not None
    x_points, y_points,           \* UpdatingGraphFigure: [0..1 -> list]
    calibrated_air_pressure,
    standing_water_level,
    standing_water_air_pressure,
    alarm_threshold,
    alarm_sent, alarm_cooldown,
    pressure_on_alarm_activate,
    wave_height_on_alarm_activate,
    alarm_status,                 \* what change_alarm_status last displayed
    alarm_threshold_line,         \* y of the threshold line of the graph
    pressure_calibrate_button,    \* the button is enabled
    set_standing_depth_button,
    reset_alarm_button,
    after_calls,                  \* pending self.after timers: [fn, delay]
    ppc,                          \* data thread: position in data_loop
    p_local,                      \* data thread: locals of new_pressure_data
    mpc,                          \* main thread: position in mainloop
    cb,                           \* main thread: position in a Tk callback
    cb_local,                     \* main thread: locals of the callback
    activations,                  \* history: times alarm_sent went False->True
    latched,                      \* history: activations since the last reset
    undispatched,                 \* history: activations minus threads started
    unsurfaced,                   \* history: activations minus alerts shown
    probe                         \* the last call made on a unit in isolation

shared == << x_points, y_points, calibrated_air_pressure, standing_water_level,
             standing_water_air_pressure, alarm_threshold, alarm_sent,
             alarm_cooldown, pressure_on_alarm_activate,
             wave_height_on_alarm_activate >>
widgets == << alarm_status, alarm_threshold_line, pressure_calibrate_button,
              set_standing_depth_button, reset_alarm_button, after_calls >>
history == << activations, latched, undispatched, unsurfaced >>
vars == << now, serial_COM, shared, widgets, ppc, p_local, mpc, cb, cb_local,
           history, probe >>

NoLocals == [time_since_init |-> 0, pressure |-> 0, water_height |-> 0,
             wave_height |-> 0, send_alarm_thread |-> "none"]
NoProbe == [op |-> "none"]
NoCbLocals == [time_since_init |-> 0, points |-> << >>]

\* Dashboard.__init__, DataTransmitter.__init__, create_widgets
Init ==
    /\ now = 0
    /\ serial_COM = FALSE
    /\ x_points = [i \in 0..1 |-> << >>]
    /\ y_points = [i \in 0..1 |-> << >>]
    /\ calibrated_air_pressure = None
    /\ standing_water_level = None
    /\ standing_water_air_pressure = None
    /\ alarm_threshold = None
    /\ alarm_sent = FALSE
    /\ alarm_cooldown = FALSE
    /\ pressure_on_alarm_activate = None
    /\ wave_height_on_alarm_activate = None
    /\ alarm_status = "not ready"
    /\ alarm_threshold_line = hidden_line_y
    /\ pressure_calibrate_button = FALSE
    /\ set_standing_depth_button = FALSE
    /\ reset_alarm_button = FALSE
    /\ after_calls = {}
    /\ ppc = "sleep"
    /\ p_local = NoLocals
    /\ mpc = "mainloop"
    /\ cb = "none"
    /\ cb_local = NoCbLocals
    /\ activations = 0
    /\ latched = 0
    /\ undispatched = 0
    /\ unsurfaced = 0
    /\ probe = NoProbe

(* ------------------------------ the clock ----------------------------- *)

Max(a, b) == IF a > b THEN a ELSE b

\* time.time() is read later than before; Tk's timers run down with it;
\* the session is followed until the clock reads limit
TickUntil(limit) ==
    /\ \E d \in ClockSteps :
          /\ now + d <= limit
          /\ now' = now + d
          /\ after_calls' = {[fn |-> call.fn, delay |-> Max(0, call.delay - d)] :
                                call \in after_calls}
    /\ UNCHANGED << serial_COM, shared, alarm_status, alarm_threshold_line,
                    pressure_calibrate_button, set_standing_depth_button,
                    reset_alarm_button, ppc, p_local, mpc, cb, cb_local,
                    history, probe >>

Tick == TickUntil(MaxTime)

(* --------------------------- the data thread ------------------------- *)

\* DataTransmitter.is_serial_connected
is_serial_connected == serial_COM

\* get_pressure_data taking a line that float() refuses for a reading
get_pressure_data_lenient(line) ==
    IF line.kind = "float" THEN Some(line.value)
    ELSE IF line.kind = "garbage" THEN Some(101325) ELSE None

\* DataTransmitter.get_pressure_data on one line: float(data), None when the
\* read raised, the line is empty or float() raises ValueError
get_pressure_data(line) ==
    IF line.kind = "float" THEN Some(line.value) ELSE None

\* a session clock that runs backwards
TimeSinceInit_backwards == MaxTime - now

\* the session clock as new_pressure_data reads it
TimeSinceInit == now

\* data_loop: time.sleep(0.05), the two checks, and get_pressure_data enters
\* self.serial_COM.readline()
ProducerWake ==
    /\ ppc = "sleep"
    /\ is_serial_connected
    /\ ppc' = "read"
    /\ UNCHANGED << now, serial_COM, shared, widgets, p_local, mpc, cb,
                    cb_local, history, probe >>

\* data_loop: get_pressure_data returns; with None the test of line 81 is
\* next, else new_pressure_data starts with
\* time_since_init = time.time() - self.init_time
\* (pressure_data, appended to next, is read nowhere and is left out)
ProducerRead ==
    /\ ppc = "read"
    /\ \E line \in SerialLines :
          LET pressure == get_pressure_data(line)
          IN  IF pressure = None
              THEN /\ ppc' = "dl_81"
                   /\ p_local' = p_local
              ELSE /\ Len(x_points[0]) < MaxSamples
                   /\ ppc' = "add0_x"
                   /\ p_local' = [p_local EXCEPT
                                    !.pressure = Val(pressure),
                                    !.time_since_init = TimeSinceInit]
    /\ UNCHANGED << now, serial_COM, shared, widgets, mpc, cb, cb_local,
                    history, probe >>

\* data_loop, line 81 with pressure None: nothing is sent to the dashboard
\* and the loop goes round
DataLoop_Drop ==
    /\ ppc = "dl_81"
    /\ ppc' = "sleep"
    /\ UNCHANGED << now, serial_COM, shared, widgets, p_local, mpc, cb,
                    cb_local, history, probe >>

\* add_data_point(0, time_since_init, pressure): x_data.append(x)
AddDataPoint0_X ==
    /\ ppc = "add0_x"
    /\ x_points' = [x_points EXCEPT ![0] = append_x(@, p_local.time_since_init)]
    /\ ppc' = "add0_y"
    /\ UNCHANGED << now, serial_COM, y_points, calibrated_air_pressure,
                    standing_water_level, standing_water_air_pressure,
                    alarm_threshold, alarm_sent, alarm_cooldown,
                    pressure_on_alarm_activate, wave_height_on_alarm_activate,
                    widgets, p_local, mpc, cb, cb_local, history, probe >>

\* add_data_point(0, time_since_init, pressure): y_data.append(y)
AddDataPoint0_Y ==
    /\ ppc = "add0_y"
    /\ y_points' = [y_points EXCEPT ![0] = append_y(@, p_local.pressure)]
    /\ ppc' = "npd_570"
    /\ UNCHANGED << now, serial_COM, x_points, calibrated_air_pressure,
                    standing_water_level, standing_water_air_pressure,
                    alarm_threshold, alarm_sent, alarm_cooldown,
                    pressure_on_alarm_activate, wave_height_on_alarm_activate,
                    widgets, p_local, mpc, cb, cb_local, history, probe >>

\* new_pressure_data without the test of line 570: an unset baseline gives
\* a water height of 0
NewPressureData_WaterHeight_unguarded ==
    /\ ppc = "npd_570"
    /\ p_local' = [p_local EXCEPT !.water_height =
             IF calibrated_air_pressure # None
             THEN calculate_water_height(p_local.pressure,
                                         Val(calibrated_air_pressure))
             ELSE 0]
    /\ ppc' = "add1_x"
    /\ UNCHANGED << now, serial_COM, shared, widgets, mpc, cb, cb_local,
                    history, probe >>

\* new_pressure_data: if self.calibrated_air_pressure != None:
\*     water_height = self.calculate_water_height(pressure)
NewPressureData_WaterHeight ==
    /\ ppc = "npd_570"
    /\ IF calibrated_air_pressure # None
       THEN /\ p_local' = [p_local EXCEPT !.water_height =
                    calculate_water_height(p_local.pressure,
                                           Val(calibrated_air_pressure))]
            /\ ppc' = "add1_x"
       ELSE /\ p_local' = NoLocals
            /\ ppc' = "sleep"
    /\ UNCHANGED << now, serial_COM, shared, widgets, mpc, cb, cb_local,
                    history, probe >>

\* add_data_point(1, time_since_init, water_height): x_data.append(x)
AddDataPoint1_X ==
    /\ ppc = "add1_x"
    /\ x_points' = [x_points EXCEPT ![1] = append_x(@, p_local.time_since_init)]
    /\ ppc' = "add1_y"
    /\ UNCHANGED << now, serial_COM, y_points, calibrated_air_pressure,
                    standing_water_level, standing_water_air_pressure,
                    alarm_threshold, alarm_sent, alarm_cooldown,
                    pressure_on_alarm_activate, wave_height_on_alarm_activate,
                    widgets, p_local, mpc, cb, cb_local, history, probe >>

\* add_data_point(1, time_since_init, water_height): y_data.append(y)
AddDataPoint1_Y ==
    /\ ppc = "add1_y"
    /\ y_points' = [y_points EXCEPT ![1] = append_y(@, p_local.water_height)]
    /\ ppc' = "npd_574"
    /\ UNCHANGED << now, serial_COM, x_points, calibrated_air_pressure,
                    standing_water_level, standing_water_air_pressure,
                    alarm_threshold, alarm_sent, alarm_cooldown,
                    pressure_on_alarm_activate, wave_height_on_alarm_activate,
                    widgets, p_local, mpc, cb, cb_local, history, probe >>

\* wave_height = water_height - self.standing_water_level
WaveHeight(water_height, standing) == water_height - standing

\* the condition of line 578 without its test of alarm_sent
ThresholdBroken_ignoring_sent(wave_height, threshold, sent) ==
    wave_height > threshold

\* the condition of line 578:
\* wave_height > self.alarm_threshold and self.alarm_sent == False
ThresholdBroken(wave_height, threshold, sent) ==
    wave_height > threshold /\ sent = FALSE

\* new_pressure_data, lines 574-578: nothing unless the standing water level
\* and the threshold are set; then the wave height and the test of it
NewPressureData_Compare ==
    /\ ppc = "npd_574"
    /\ IF standing_water_level # None /\ alarm_threshold # None
       THEN LET wave_height == WaveHeight(p_local.water_height,
                                          Val(standing_water_level))
            IN  IF ThresholdBroken(wave_height, Val(alarm_threshold),
                                   alarm_sent)
                THEN /\ ppc' = "npd_581"
                     /\ p_local' = [p_local EXCEPT !.wave_height = wave_height]
                ELSE /\ ppc' = "sleep"
                     /\ p_local' = NoLocals
       ELSE /\ ppc' = "sleep"
            /\ p_local' = NoLocals
    /\ UNCHANGED << now, serial_COM, shared, widgets, mpc, cb, cb_local,
                    history, probe >>

\* self.pressure_on_alarm_activate = pressure
NewPressureData_SavePressure ==
    /\ ppc = "npd_581"
    /\ pressure_on_alarm_activate' = Some(p_local.pressure)
    /\ ppc' = "npd_582"
    /\ UNCHANGED << now, serial_COM, x_points, y_points,
                    calibrated_air_pressure, standing_water_level,
                    standing_water_air_pressure, alarm_threshold, alarm_sent,
                    alarm_cooldown, wave_height_on_alarm_activate, widgets,
                    p_local, mpc, cb, cb_local, history, probe >>

\* self.wave_height_on_alarm_activate = wave_height
NewPressureData_SaveWaveHeight ==
    /\ ppc = "npd_582"
    /\ wave_height_on_alarm_activate' = Some(p_local.wave_height)
    /\ ppc' = "npd_584"
    /\ UNCHANGED << now, serial_COM, x_points, y_points,
                    calibrated_air_pressure, standing_water_level,
                    standing_water_air_pressure, alarm_threshold, alarm_sent,
                    alarm_cooldown, pressure_on_alarm_activate, widgets,
                    p_local, mpc, cb, cb_local, history, probe >>

\* self.alarm_sent = True: the activation
NewPressureData_Latch ==
    /\ ppc = "npd_584"
    /\ alarm_sent' = TRUE
    /\ activations' = activations + 1
    /\ latched' = latched + 1
    /\ undispatched' = undispatched + 1
    /\ unsurfaced' = unsurfaced + 1
    /\ ppc' = "npd_587"
    /\ UNCHANGED << now, serial_COM, x_points, y_points,
                    calibrated_air_pressure, standing_water_level,
                    standing_water_air_pressure, alarm_threshold,
                    alarm_cooldown, pressure_on_alarm_activate,
                    wave_height_on_alarm_activate, widgets, p_local, mpc, cb,
                    cb_local, probe >>

\* line 587 left out: new_pressure_data returns without starting the thread
NewPressureData_NoThread ==
    /\ ppc = "npd_587"
    /\ ppc' = "sleep"
    /\ p_local' = NoLocals
    /\ UNCHANGED << now, serial_COM, shared, widgets, mpc, cb, cb_local,
                    history, probe >>

\* DataTransmitter.send_alarm as the started thread runs it: it returns at
\* once when serial_COM is None, else serial_COM.write either sends ALARM or
\* raises, which ends the thread
send_alarm(connected, write_ok) ==
    IF ~connected THEN "no link"
    ELSE IF write_ok THEN "written" ELSE "raised"

\* a dispatch that undoes the activation when the ALARM command did not go
\* out
NewPressureData_StartThread_rollback ==
    /\ ppc = "npd_587"
    /\ undispatched' = undispatched - 1
    /\ \E write_ok \in BOOLEAN :
          /\ p_local' = [p_local EXCEPT
                         !.send_alarm_thread = send_alarm(serial_COM, write_ok)]
          /\ IF send_alarm(serial_COM, write_ok) = "written"
             THEN UNCHANGED << alarm_sent, pressure_on_alarm_activate,
                               wave_height_on_alarm_activate >>
             ELSE /\ alarm_sent' = FALSE
                  /\ pressure_on_alarm_activate' = None
                  /\ wave_height_on_alarm_activate' = None
    /\ ppc' = "npd_return"
    /\ UNCHANGED << now, serial_COM, x_points, y_points,
                    calibrated_air_pressure, standing_water_level,
                    standing_water_air_pressure, alarm_threshold,
                    alarm_cooldown, widgets, mpc, cb, cb_local,
                    activations, latched, unsurfaced, probe >>

\* threading.Thread(target=self.send_alarm).start(), line 588, and the
\* thread's run: Dashboard.send_alarm calls DataTransmitter.send_alarm, which
\* reads serial_COM, writes to the link and assigns no attribute; the local
\* send_alarm_thread holds the thread, here by the way it ended
NewPressureData_StartThread ==
    /\ ppc = "npd_587"
    /\ undispatched' = undispatched - 1
    /\ \E write_ok \in BOOLEAN :
          p_local' = [p_local EXCEPT
                         !.send_alarm_thread = send_alarm(serial_COM, write_ok)]
    /\ ppc' = "npd_return"
    /\ UNCHANGED << now, serial_COM, shared, widgets, mpc, cb, cb_local,
                    activations, latched, unsurfaced, probe >>

\* new_pressure_data returns to data_loop after line 588, whatever became
\* of the thread
NewPressureData_Return ==
    /\ ppc = "npd_return"
    /\ ppc' = "sleep"
    /\ p_local' = NoLocals
    /\ UNCHANGED << now, serial_COM, shared, widgets, mpc, cb, cb_local,
                    history, probe >>

(* --------------------------- the main thread ------------------------- *)

\* the test of line 425 without alarm_cooldown
MessageNeeded_ignoring_cooldown(cooldown, sent) == sent = TRUE

\* mainloop: self.alarm_cooldown == False and self.alarm_sent == True
MessageNeeded(cooldown, sent) == cooldown = FALSE /\ sent = TRUE

\* the iteration of mainloop with an acknowledgement added: the tick clears
\* alarm_sent once it has shown the alert
MainLoopAlarm_clearing_latch ==
    /\ mpc = "mainloop"
    /\ cb = "none"
    /\ MessageNeeded(alarm_cooldown, alarm_sent)
    /\ alarm_cooldown' = TRUE
    /\ alarm_sent' = FALSE
    /\ alarm_status' = "activated"
    /\ UNCHANGED alarm_threshold_line
    /\ IF pressure_on_alarm_activate = None
            \/ wave_height_on_alarm_activate = None
       THEN /\ mpc' = "crashed"
            /\ reset_alarm_button' = reset_alarm_button
            /\ unsurfaced' = unsurfaced
       ELSE /\ mpc' = "mainloop"
            /\ reset_alarm_button' = TRUE
            /\ unsurfaced' = unsurfaced - 1
    /\ UNCHANGED << now, serial_COM, x_points, y_points,
                    calibrated_air_pressure, standing_water_level,
                    standing_water_air_pressure, alarm_threshold,
                    pressure_on_alarm_activate, wave_height_on_alarm_activate,
                    pressure_calibrate_button, set_standing_depth_button,
                    after_calls, ppc, p_local, cb, cb_local, activations,
                    latched, undispatched, probe >>

\* mainloop, lines 410-459: the redraw and update_statistics, which read the
\* buffers and write only what is drawn; then the test of line 425,
\* self.alarm_cooldown = True and window_activate_alarm.  alarm_pop_up
\* formats the snapshot with {:.2f}, which raises TypeError on None: the
\* exception leaves mainloop before reset_alarm_button.enable() and before
\* the self.update() that would draw the pop-up, so that alert is never
\* shown.  An iteration that finds no message to send changes nothing.
MainLoopAlarm ==
    /\ mpc = "mainloop"
    /\ cb = "none"
    /\ MessageNeeded(alarm_cooldown, alarm_sent)
    /\ alarm_cooldown' = TRUE
    /\ alarm_status' = "activated"
    /\ UNCHANGED alarm_threshold_line
    /\ IF pressure_on_alarm_activate = None
            \/ wave_height_on_alarm_activate = None
       THEN /\ mpc' = "crashed"
            /\ reset_alarm_button' = reset_alarm_button
            /\ unsurfaced' = unsurfaced
       ELSE /\ mpc' = "mainloop"
            /\ reset_alarm_button' = TRUE
            /\ unsurfaced' = unsurfaced - 1
    /\ UNCHANGED << now, serial_COM, x_points, y_points,
                    calibrated_air_pressure, standing_water_level,
                    standing_water_air_pressure, alarm_threshold, alarm_sent,
                    pressure_on_alarm_activate, wave_height_on_alarm_activate,
                    pressure_calibrate_button, set_standing_depth_button,
                    after_calls, ppc, p_local, cb, cb_local, activations,
                    latched, undispatched, probe >>

\* mainloop, lines 410-436, when the test of line 425 fails: set_center,
\* update_subplots, update_graph_text, draw_canvas, update_statistics and
\* update_date_time read the buffers, the calibration values, the threshold
\* and the snapshot, and assign only the axis centre and what the widgets
\* show, none of which is part of the state here
MainLoopTick ==
    /\ mpc = "mainloop"
    /\ cb = "none"
    /\ ~MessageNeeded(alarm_cooldown, alarm_sent)
    /\ UNCHANGED vars

\* get_pressure_data called from the mainloop instead of from a thread of
\* its own: no callback runs while readline() has not returned
InUpdate_polling == mpc = "mainloop" /\ cb = "none" /\ ppc # "read"

\* Tk runs a callback from self.update() of a mainloop iteration, one at a
\* time
InUpdate == mpc = "mainloop" /\ cb = "none"

\* Dashboard.connect_serial with DataTransmitter.connect_serial: serial.Serial
\* opens the port or raises SerialException
ConnectSerial ==
    /\ InUpdate
    /\ \E success \in BOOLEAN :
          /\ serial_COM' = success
          /\ pressure_calibrate_button' =
                 IF success THEN TRUE ELSE pressure_calibrate_button
    /\ UNCHANGED << now, shared, alarm_status, alarm_threshold_line, set_standing_depth_button,
                    reset_alarm_button, after_calls, ppc, p_local, mpc, cb,
                    cb_local, history, probe >>

\* Dashboard.calibrate_pressure_button_pressed, in a session followed until
\* the clock reads limit
CalibratePressureButtonPressedUntil(limit) ==
    /\ InUpdate
    /\ pressure_calibrate_button
    /\ now + CalibrationDelay <= limit
    /\ pressure_calibrate_button' = FALSE
    /\ after_calls' = after_calls \cup
            {[fn |-> "calibrate_air_pressure", delay |-> CalibrationDelay]}
    /\ UNCHANGED << now, serial_COM, shared, alarm_status, alarm_threshold_line,
                    set_standing_depth_button, reset_alarm_button, ppc,
                    p_local, mpc, cb, cb_local, history, probe >>

CalibratePressureButtonPressed == CalibratePressureButtonPressedUntil(MaxTime)

\* calibrate_air_pressure with the two buttons enabled before the try block
CalibrateAirPressure_enabling_first ==
    /\ InUpdate
    /\ \E call \in after_calls :
          /\ call.fn = "calibrate_air_pressure"
          /\ call.delay = 0
          /\ after_calls' = after_calls \ {call}
    /\ LET pressure_data_points ==
               AirScan(x_points[0], y_points[0], now, CalibrationLength,
                       1, << >>)
           mean == Mean(pressure_data_points)
       IN  /\ pressure_calibrate_button' = TRUE
           /\ set_standing_depth_button' = TRUE
           /\ IF mean = None
              THEN /\ cb' = "air_except"
                   /\ UNCHANGED calibrated_air_pressure
              ELSE /\ cb' = "none"
                   /\ calibrated_air_pressure' = mean
    /\ UNCHANGED << now, serial_COM, x_points, y_points,
                    standing_water_level, standing_water_air_pressure,
                    alarm_threshold, alarm_sent, alarm_cooldown,
                    pressure_on_alarm_activate, wave_height_on_alarm_activate,
                    alarm_status, alarm_threshold_line, reset_alarm_button, ppc, p_local, mpc,
                    cb_local, history, probe >>

\* Dashboard.calibrate_air_pressure(5), run by the timer: the scan of the
\* pressure graph and the try block; a mean of None is the ZeroDivisionError,
\* raised before the assignment; else both buttons are enabled
CalibrateAirPressure ==
    /\ InUpdate
    /\ \E call \in after_calls :
          /\ call.fn = "calibrate_air_pressure"
          /\ call.delay = 0
          /\ after_calls' = after_calls \ {call}
    /\ LET pressure_data_points ==
               AirScan(x_points[0], y_points[0], now, CalibrationLength,
                       1, << >>)
           mean == Mean(pressure_data_points)
       IN  IF mean = None
           THEN /\ cb' = "air_except"
                /\ UNCHANGED << calibrated_air_pressure,
                                pressure_calibrate_button,
                                set_standing_depth_button >>
           ELSE /\ cb' = "none"
                /\ calibrated_air_pressure' = mean
                /\ pressure_calibrate_button' = TRUE
                /\ set_standing_depth_button' = TRUE
    /\ UNCHANGED << now, serial_COM, x_points, y_points,
                    standing_water_level, standing_water_air_pressure,
                    alarm_threshold, alarm_sent, alarm_cooldown,
                    pressure_on_alarm_activate, wave_height_on_alarm_activate,
                    alarm_status, alarm_threshold_line, reset_alarm_button, ppc, p_local, mpc,
                    cb_local, history, probe >>

\* the handler of ZeroDivisionError giving the user another try: it enables
\* the calibrate button before it returns
CalibrateAirPressure_LackOfData_retry ==
    /\ cb = "air_except"
    /\ cb' = "none"
    /\ pressure_calibrate_button' = TRUE
    /\ UNCHANGED << now, serial_COM, shared, alarm_status,
                    alarm_threshold_line, set_standing_depth_button,
                    reset_alarm_button, after_calls, ppc, p_local, mpc,
                    cb_local, history, probe >>

\* calibrate_air_pressure, except ZeroDivisionError: "Could not calibrate air
\* pressure, lack of data" is reported and the function returns
CalibrateAirPressure_LackOfData ==
    /\ cb = "air_except"
    /\ cb' = "none"
    /\ UNCHANGED << now, serial_COM, shared, widgets, ppc, p_local, mpc,
                    cb_local, history, probe >>


\* float(self.alarm_threshold_var.get()): None when it raises ValueError
ParseThreshold(entry) ==
    IF entry.kind = "float" THEN Some(entry.value) ELSE None

\* set_alarm_threshold: if (alarm_threshold < 0): ... return
ThresholdRejected(alarm_threshold_value) == alarm_threshold_value < 0

\* set_alarm_threshold without the test of lines 832-835
SetAlarmThreshold_uncalibrated ==
    /\ InUpdate
    /\ \E entry \in ThresholdEntries :
          IF ParseThreshold(entry) = None
          THEN /\ cb' = "thr_842"
               /\ UNCHANGED << alarm_threshold, alarm_threshold_line, alarm_status >>
          ELSE IF ThresholdRejected(Val(ParseThreshold(entry)))
          THEN /\ cb' = "thr_847"
               /\ UNCHANGED << alarm_threshold, alarm_threshold_line, alarm_status >>
          ELSE /\ cb' = "none"
               /\ alarm_threshold' = ParseThreshold(entry)
               /\ alarm_threshold_line' =
                    IF standing_water_level = None THEN alarm_threshold_line
                    ELSE Val(ParseThreshold(entry)) + Val(standing_water_level)
               /\ alarm_status' = "ready"
    /\ UNCHANGED << now, serial_COM, x_points, y_points,
                    calibrated_air_pressure, standing_water_level,
                    standing_water_air_pressure, alarm_sent, alarm_cooldown,
                    pressure_on_alarm_activate, wave_height_on_alarm_activate,
                    pressure_calibrate_button, set_standing_depth_button,
                    reset_alarm_button, after_calls, ppc, p_local, mpc,
                    cb_local, history, probe >>

\* Dashboard.set_alarm_threshold: each of the three tests leads to its early
\* return (lines 833-835, 840-842, 845-847), which sets the status message and
\* clears the entry only; else the threshold is stored, the threshold line
\* is moved and change_alarm_status("ready") is called
SetAlarmThreshold ==
    /\ InUpdate
    /\ \E entry \in ThresholdEntries :
          IF standing_water_level = None
          THEN /\ cb' = "thr_835"
               /\ UNCHANGED << alarm_threshold, alarm_threshold_line, alarm_status >>
          ELSE IF ParseThreshold(entry) = None
          THEN /\ cb' = "thr_842"
               /\ UNCHANGED << alarm_threshold, alarm_threshold_line, alarm_status >>
          ELSE IF ThresholdRejected(Val(ParseThreshold(entry)))
          THEN /\ cb' = "thr_847"
               /\ UNCHANGED << alarm_threshold, alarm_threshold_line, alarm_status >>
          ELSE /\ cb' = "none"
               /\ alarm_threshold' = ParseThreshold(entry)
               /\ alarm_threshold_line' =
                    IF standing_water_level = None THEN alarm_threshold_line
                    ELSE Val(ParseThreshold(entry)) + Val(standing_water_level)
               /\ alarm_status' = "ready"
    /\ UNCHANGED << now, serial_COM, x_points, y_points,
                    calibrated_air_pressure, standing_water_level,
                    standing_water_air_pressure, alarm_sent, alarm_cooldown,
                    pressure_on_alarm_activate, wave_height_on_alarm_activate,
                    pressure_calibrate_button, set_standing_depth_button,
                    reset_alarm_button, after_calls, ppc, p_local, mpc,
                    cb_local, history, probe >>

\* set_alarm_threshold: the return of an early exit
SetAlarmThreshold_Return ==
    /\ cb \in {"thr_835", "thr_842", "thr_847"}
    /\ cb' = "none"
    /\ UNCHANGED << now, serial_COM, shared, widgets, ppc, p_local, mpc,
                    cb_local, history, probe >>

\* Dashboard.calibrate_swh_button_pressed, in a session followed until the
\* clock reads limit
CalibrateSwhButtonPressedUntil(limit) ==
    /\ InUpdate
    /\ set_standing_depth_button
    /\ now + CalibrationDelay <= limit
    /\ set_standing_depth_button' = FALSE
    /\ after_calls' = after_calls \cup
            {[fn |-> "calibrate_swh", delay |-> CalibrationDelay]}
    /\ UNCHANGED << now, serial_COM, shared, alarm_status, alarm_threshold_line,
                    pressure_calibrate_button, reset_alarm_button, ppc,
                    p_local, mpc, cb, cb_local, history, probe >>

CalibrateSwhButtonPressed == CalibrateSwhButtonPressedUntil(MaxTime)

\* Dashboard.calibrate_swh(5), run by the timer: the clock and the window
\* query of the pressure graph (line 878)
CalibrateSwh_PressureWindow ==
    /\ InUpdate
    /\ \E call \in after_calls :
          /\ call.fn = "calibrate_swh"
          /\ call.delay = 0
          /\ after_calls' = after_calls \ {call}
    /\ cb_local' = [time_since_init |-> now,
                    points |-> get_data_within_last_x(x_points[0], y_points[0],
                                   now - CalibrationLength)[2]]
    /\ cb' = "swh_879"
    /\ UNCHANGED << now, serial_COM, shared, alarm_status, alarm_threshold_line,
                    pressure_calibrate_button, set_standing_depth_button,
                    reset_alarm_button, ppc, p_local, mpc, history, probe >>

\* calibrate_swh from line 879: the window query of the water height graph,
\* then the try block: the first mean is assigned before the second is
\* computed, and a ZeroDivisionError of either (a mean of None) leaves it;
\* else the button is enabled and the standing water height line is moved
CalibrateSwh_Means ==
    /\ cb = "swh_879"
    /\ LET water_height_data_points ==
               get_data_within_last_x(x_points[1], y_points[1],
                   cb_local.time_since_init - CalibrationLength)[2]
           level == Mean(water_height_data_points)
           pressure == Mean(cb_local.points)
       IN  IF level = None
           THEN /\ cb' = "swh_except"
                /\ UNCHANGED << standing_water_level,
                                standing_water_air_pressure,
                                set_standing_depth_button >>
           ELSE IF pressure = None
           THEN /\ cb' = "swh_except"
                /\ standing_water_level' = level
                /\ UNCHANGED << standing_water_air_pressure,
                                set_standing_depth_button >>
           ELSE /\ cb' = "none"
                /\ standing_water_level' = level
                /\ standing_water_air_pressure' = pressure
                /\ set_standing_depth_button' = TRUE
    /\ cb_local' = NoCbLocals
    /\ UNCHANGED << now, serial_COM, x_points, y_points,
                    calibrated_air_pressure, alarm_threshold, alarm_sent,
                    alarm_cooldown, pressure_on_alarm_activate,
                    wave_height_on_alarm_activate, alarm_status, alarm_threshold_line,
                    pressure_calibrate_button, reset_alarm_button,
                    after_calls, ppc, p_local, mpc, history, probe >>

\* calibrate_swh, except ZeroDivisionError: "Could not calibrate standing
\* water height, lack of data" is reported and the function returns
CalibrateSwh_LackOfData ==
    /\ cb = "swh_except"
    /\ cb' = "none"
    /\ UNCHANGED << now, serial_COM, shared, widgets, ppc, p_local, mpc,
                    cb_local, history, probe >>


\* Dashboard.reset_alarm up to self.alarm_sent = False
ResetAlarm_Sent ==
    /\ InUpdate
    /\ reset_alarm_button
    /\ alarm_status' = "ready"
    /\ UNCHANGED alarm_threshold_line
    /\ alarm_sent' = FALSE
    /\ latched' = 0
    /\ cb' = "reset_474"
    /\ UNCHANGED << now, serial_COM, x_points, y_points,
                    calibrated_air_pressure, standing_water_level,
                    standing_water_air_pressure, alarm_threshold,
                    alarm_cooldown, pressure_on_alarm_activate,
                    wave_height_on_alarm_activate, pressure_calibrate_button,
                    set_standing_depth_button, reset_alarm_button,
                    after_calls, ppc, p_local, mpc, cb_local, activations,
                    undispatched, unsurfaced, probe >>

\* line 474 left out: reset_alarm keeps alarm_cooldown
ResetAlarm_Cooldown_kept ==
    /\ cb = "reset_474"
    /\ cb' = "reset_475"
    /\ UNCHANGED << now, serial_COM, shared, widgets, ppc, p_local, mpc,
                    cb_local, history, probe >>

\* reset_alarm: self.alarm_cooldown = False
ResetAlarm_Cooldown ==
    /\ cb = "reset_474"
    /\ alarm_cooldown' = FALSE
    /\ cb' = "reset_475"
    /\ UNCHANGED << now, serial_COM, x_points, y_points,
                    calibrated_air_pressure, standing_water_level,
                    standing_water_air_pressure, alarm_threshold, alarm_sent,
                    pressure_on_alarm_activate, wave_height_on_alarm_activate,
                    widgets, ppc, p_local, mpc, cb_local, history, probe >>

\* reset_alarm: self.pressure_on_alarm_activate = None
ResetAlarm_Pressure ==
    /\ cb = "reset_475"
    /\ pressure_on_alarm_activate' = None
    /\ cb' = "reset_476"
    /\ UNCHANGED << now, serial_COM, x_points, y_points,
                    calibrated_air_pressure, standing_water_level,
                    standing_water_air_pressure, alarm_threshold, alarm_sent,
                    alarm_cooldown, wave_height_on_alarm_activate, widgets,
                    ppc, p_local, mpc, cb_local, history, probe >>

\* reset_alarm: self.wave_height_on_alarm_activate = None, and
\* self.reset_alarm_button.disable()
ResetAlarm_WaveHeight ==
    /\ cb = "reset_476"
    /\ wave_height_on_alarm_activate' = None
    /\ reset_alarm_button' = FALSE
    /\ cb' = "none"
    /\ UNCHANGED << now, serial_COM, x_points, y_points,
                    calibrated_air_pressure, standing_water_level,
                    standing_water_air_pressure, alarm_threshold, alarm_sent,
                    alarm_cooldown, pressure_on_alarm_activate, alarm_status, alarm_threshold_line,
                    pressure_calibrate_button, set_standing_depth_button,
                    after_calls, ppc, p_local, mpc, cb_local, history, probe >>

(* --------------------------- specification ---------------------------- *)

Next ==
    \/ Tick
    \/ ProducerWake
    \/ ProducerRead
    \/ DataLoop_Drop
    \/ AddDataPoint0_X
    \/ AddDataPoint0_Y
    \/ NewPressureData_WaterHeight
    \/ AddDataPoint1_X
    \/ AddDataPoint1_Y
    \/ NewPressureData_Compare
    \/ NewPressureData_SavePressure
    \/ NewPressureData_SaveWaveHeight
    \/ NewPressureData_Latch
    \/ NewPressureData_StartThread
    \/ NewPressureData_Return
    \/ MainLoopAlarm
    \/ MainLoopTick
    \/ ConnectSerial
    \/ CalibratePressureButtonPressed
    \/ CalibrateAirPressure
    \/ CalibrateAirPressure_LackOfData
    \/ SetAlarmThreshold
    \/ SetAlarmThreshold_Return
    \/ CalibrateSwhButtonPressed
    \/ CalibrateSwh_PressureWindow
    \/ CalibrateSwh_Means
    \/ CalibrateSwh_LackOfData
    \/ ResetAlarm_Sent
    \/ ResetAlarm_Cooldown
    \/ ResetAlarm_Pressure
    \/ ResetAlarm_WaveHeight

Spec == Init /\ [][Next]_vars

(* ------------- the units in isolation, called with any argument -------- *)

system == << now, serial_COM, calibrated_air_pressure, standing_water_level,
             standing_water_air_pressure, alarm_threshold, alarm_sent,
             alarm_cooldown, pressure_on_alarm_activate,
             wave_height_on_alarm_activate, widgets, ppc, p_local, mpc, cb,
             cb_local, history >>

\* graph.add_data_point(0, x, y) with any timestamp
Unit_add_data_point ==
    /\ Len(x_points[0]) < MaxProbeLen
    /\ \E x \in ProbeTimes, y \in ProbeValues :
          LET added == add_data_point(x_points[0], y_points[0], x, y)
          IN  /\ x_points' = [x_points EXCEPT ![0] = added.xs]
              /\ y_points' = [y_points EXCEPT ![0] = added.ys]
              /\ probe' = [op |-> "add_data_point", x |-> x, y |-> y,
                           xs |-> x_points[0], ys |-> y_points[0],
                           raised |-> added.raised]
    /\ UNCHANGED system

\* graph.get_data_within_last_x(0, min_x) with any cutoff
Unit_get_data_within_last_x ==
    /\ \E min_x \in 0..(MaxProbeTime + 1) :
          probe' = [op |-> "get_data_within_last_x", min_x |-> min_x,
                    out |-> get_data_within_last_x(x_points[0], y_points[0],
                                                   min_x)]
    /\ UNCHANGED << system, x_points, y_points >>

\* calculate_water_height(pressure) for two pressures and one baseline
Unit_calculate_water_height ==
    /\ \E p1 \in ProbePressures, p2 \in ProbePressures,
          baseline \in ProbeBaselines :
          probe' = [op |-> "calculate_water_height", baseline |-> baseline,
                    p1 |-> p1, p2 |-> p2,
                    out1 |-> calculate_water_height(p1, baseline),
                    out2 |-> calculate_water_height(p2, baseline)]
    /\ UNCHANGED << system, x_points, y_points >>

\* data_period_change(period) for any position of the slider, the graphs
\* still empty: the method reads no buffer
Unit_data_period_change ==
    /\ x_points[0] = << >>
    /\ \E period \in MinDataPeriod..MaxDataPeriod :
          probe' = [op |-> "data_period_change", period |-> period,
                    data_period_var |-> data_period_change(period)]
    /\ UNCHANGED << system, x_points, y_points >>

UnitNext ==
    \/ Unit_add_data_point
    \/ Unit_get_data_within_last_x
    \/ Unit_calculate_water_height
    \/ Unit_data_period_change

UnitSpec == Init /\ [][UnitNext]_vars

(* -------------------- the two threads kept running -------------------- *)

\* the data thread is a loop that never returns
DataThreadStep ==
    \/ ProducerWake
    \/ ProducerRead
    \/ DataLoop_Drop
    \/ AddDataPoint0_X
    \/ AddDataPoint0_Y
    \/ NewPressureData_WaterHeight
    \/ AddDataPoint1_X
    \/ AddDataPoint1_Y
    \/ NewPressureData_Compare
    \/ NewPressureData_SavePressure
    \/ NewPressureData_SaveWaveHeight
    \/ NewPressureData_Latch
    \/ NewPressureData_StartThread
    \/ NewPressureData_Return

\* the main thread runs a started callback to its end and then goes round
\* mainloop again; when and whether the user presses a button is left open
MainThreadStep ==
    \/ MainLoopAlarm
    \/ MainLoopTick
    \/ CalibrateAirPressure_LackOfData
    \/ SetAlarmThreshold_Return
    \/ CalibrateSwh_Means
    \/ CalibrateSwh_LackOfData
    \/ ResetAlarm_Cooldown
    \/ ResetAlarm_Pressure
    \/ ResetAlarm_WaveHeight

LiveSpec == Spec /\ WF_vars(DataThreadStep) /\ WF_vars(MainThreadStep)

(* ------ a longer session, the two threads taking turns at rest -------- *)

\* the data thread is between two polls
ProducerAtRest == ppc = "sleep"

\* the main thread is between two callbacks
PanelAtRest == cb = "none"

\* A session of MaxSessionTime seconds, long enough for a second
\* calibration of the standing water level.  Of the schedules of Spec it
\* keeps those where a poll of the data thread and a callback of the main
\* thread each run to their end once started.
SessionNext ==
    \/ ProducerAtRest /\ PanelAtRest /\ TickUntil(MaxSessionTime)
    \/ PanelAtRest /\ DataThreadStep
    \/ ProducerAtRest /\ MainLoopAlarm
    \/ ProducerAtRest /\ MainLoopTick
    \/ ProducerAtRest /\ ConnectSerial
    \/ ProducerAtRest /\ CalibratePressureButtonPressedUntil(MaxSessionTime)
    \/ ProducerAtRest /\ CalibrateAirPressure
    \/ ProducerAtRest /\ CalibrateAirPressure_LackOfData
    \/ ProducerAtRest /\ SetAlarmThreshold
    \/ ProducerAtRest /\ SetAlarmThreshold_Return
    \/ ProducerAtRest /\ CalibrateSwhButtonPressedUntil(MaxSessionTime)
    \/ ProducerAtRest /\ CalibrateSwh_PressureWindow
    \/ ProducerAtRest /\ CalibrateSwh_Means
    \/ ProducerAtRest /\ CalibrateSwh_LackOfData
    \/ ProducerAtRest /\ ResetAlarm_Sent
    \/ ProducerAtRest /\ ResetAlarm_Cooldown
    \/ ProducerAtRest /\ ResetAlarm_Pressure
    \/ ProducerAtRest /\ ResetAlarm_WaveHeight

SessionSpec == Init /\ [][SessionNext]_vars

(* ------------------------------ properties ---------------------------- *)

Sorted(xs) == \A i \in 1..(Len(xs) - 1) : xs[i] <= xs[i + 1]

\* the step of line 584
LatchStep == ppc = "npd_584" /\ ppc' = "npd_587"

\* C1: the alarm latch.  A sample compared at line 578 with the standing
\* level and the threshold set goes on to activate the alarm exactly when its
\* wave height exceeds the threshold and alarm_sent is False; the activation
\* takes alarm_sent from False to True and is the only one since the last
\* reset_alarm; alarm_sent goes back to False in reset_alarm alone.
AlarmLatch ==
    [][ /\ ( /\ ppc = "npd_574" /\ ppc' # ppc
             /\ standing_water_level # None /\ alarm_threshold # None )
           => ( ppc' = "npd_581"
                <=> ( /\ WaveHeight(p_local.water_height,
                                    Val(standing_water_level))
                            > Val(alarm_threshold)
                      /\ alarm_sent = FALSE ) )
        /\ LatchStep
           => (alarm_sent = FALSE /\ alarm_sent' = TRUE /\ latched' = 1)
        /\ (activations' # activations \/ (~alarm_sent /\ alarm_sent'))
           => (LatchStep /\ activations' = activations + 1)
        /\ (alarm_sent /\ ~alarm_sent') => (cb # "reset_474" /\ cb' = "reset_474")
      ]_vars

\* C1 witness: activated, reset, and activated once more by a later sample
AlarmLatchedAgain ==
    /\ activations = 2
    /\ latched = 1
    /\ alarm_sent
    /\ alarm_threshold # None

\* C2: the threads started equal the activations, but between line 584 and
\* line 587 of the call that activated: every activation is followed in the
\* same call by one thread start, and nothing else starts one.
DispatchPerActivation ==
    undispatched = (IF ppc = "npd_587" THEN 1 ELSE 0)

\* C2 witness: one activation, its thread started, and a further breaching
\* sample at the comparison while the alarm is activated
BreachWhileActivated ==
    /\ activations = 1
    /\ undispatched = 0
    /\ alarm_sent
    /\ ppc = "npd_574"
    /\ standing_water_level # None
    /\ alarm_threshold # None
    /\ WaveHeight(p_local.water_height, Val(standing_water_level))
          > Val(alarm_threshold)

\* C3: mainloop calls window_activate_alarm only for an activation whose
\* alert it has not raised yet, so at most once per activation.
AlertOncePerActivation ==
    [][ MainLoopAlarm => (unsurfaced = 1 /\ latched = 1 /\ ~alarm_cooldown) ]_vars

\* C3 witness: the second activation's alert raised, after the first one's
\* and a reset
SecondAlertRaised ==
    /\ activations = 2
    /\ unsurfaced = 0
    /\ alarm_cooldown
    /\ alarm_sent
    /\ mpc = "mainloop"

\* C4 as stated: with both threads kept running, every activation is
\* followed by its alert.
AlertFollowsActivation == (unsurfaced > 0) ~> (unsurfaced = 0)

\* C8: the timestamps of each channel's buffer are non-decreasing.
BufferTimestampsSorted == Sorted(x_points[0]) /\ Sorted(x_points[1])

\* C8 witness: both channels hold samples of different times
TwoTimesBuffered ==
    /\ Len(x_points[1]) >= 2
    /\ x_points[1][1] < x_points[1][Len(x_points[1])]
    /\ x_points[0][1] < x_points[0][Len(x_points[0])]

\* C10 as stated: the step that takes a calibration to its lack-of-data
\* handler leaves the three calibration values as they were.
FailedCalibrationChangesNothing ==
    [][ (cb' \in {"air_except", "swh_except"} /\ cb' # cb)
        => UNCHANGED << calibrated_air_pressure, standing_water_level,
                        standing_water_air_pressure >> ]_vars

(* ----------------- properties of the units in isolation --------------- *)

\* the samples of a buffer, oldest first
Samples(xs, ys) == [i \in 1..Len(xs) |-> << xs[i], ys[i] >>]

\* the samples of a buffer whose timestamp is at least min_x, oldest first
SamplesSince(xs, ys, min_x) ==
    SelectSeq(Samples(xs, ys), LAMBDA sample : sample[1] >= min_x)

Count(sample, samples) ==
    Cardinality({i \in DOMAIN samples : samples[i] = sample})

SameSamples(a, b) ==
    /\ Len(a) = Len(b)
    /\ \A i \in DOMAIN a : Count(a[i], a) = Count(a[i], b)

WindowAsked == probe.op = "get_data_within_last_x" /\ Sorted(x_points[0])

\* C5: on a buffer of non-decreasing timestamps the window query returns the
\* samples with timestamp >= min_x, each as often as the buffer holds it and
\* no other; that is the empty result when the buffer is empty or min_x is
\* past every sample.
WindowExact ==
    WindowAsked
    => /\ Len(probe.out[1]) = Len(probe.out[2])
       /\ SameSamples(Samples(probe.out[1], probe.out[2]),
                      SamplesSince(x_points[0], y_points[0], probe.min_x))

\* C5 witness: a query that keeps some samples of the buffer and drops others
WindowKeepsSome ==
    /\ WindowAsked
    /\ Len(probe.out[1]) >= 1
    /\ Len(probe.out[1]) < Len(x_points[0])

\* C6 as stated: the window query returns the samples oldest first.
WindowOldestFirst ==
    WindowAsked
    => Samples(probe.out[1], probe.out[2])
          = SamplesSince(x_points[0], y_points[0], probe.min_x)

\* C6: the window query returns the samples newest first, the reverse of the
\* order in which they were appended.
WindowNewestFirst ==
    WindowAsked
    => Samples(probe.out[1], probe.out[2])
          = Reverse(SamplesSince(x_points[0], y_points[0], probe.min_x))

\* C6 witness: a query that returns two samples of different times
WindowOfTwoTimes ==
    /\ WindowAsked
    /\ Len(probe.out[1]) >= 2
    /\ probe.out[1][1] > probe.out[1][2]

EarlierAppended ==
    /\ probe.op = "add_data_point"
    /\ probe.xs # << >>
    /\ probe.x < probe.xs[Len(probe.xs)]

\* C7 as stated: an append with a timestamp below the channel's last one
\* fails and leaves the buffer as it was.
EarlierAppendRejected ==
    EarlierAppended
    => /\ probe.raised
       /\ x_points[0] = probe.xs
       /\ y_points[0] = probe.ys

\* C7: an append with a timestamp below the channel's last one raises
\* nothing and puts the sample at the end of the buffer.
EarlierAppendAccepted ==
    EarlierAppended
    => /\ ~probe.raised
       /\ x_points[0] = Append(probe.xs, probe.x)
       /\ y_points[0] = Append(probe.ys, probe.y)

\* C7 witness: a buffer out of order after such an append
BufferOutOfOrder ==
    /\ EarlierAppended
    /\ ~Sorted(x_points[0])

\* C9: for one baseline calculate_water_height is non-decreasing in the
\* pressure, is 0 for every pressure at or below the baseline and is never
\* negative.
HeightMonotone ==
    probe.op = "calculate_water_height"
    => /\ probe.p1 <= probe.p2 => probe.out1 <= probe.out2
       /\ probe.p1 <= probe.baseline => probe.out1 = 0
       /\ probe.out1 >= 0

\* C9 witness: one pressure below the baseline and one above it
HeightBelowAndAbove ==
    /\ probe.op = "calculate_water_height"
    /\ probe.p1 < probe.baseline
    /\ probe.out1 = 0
    /\ probe.p2 > probe.baseline
    /\ probe.out2 > 0

(* ------------------- properties of the user's actions ----------------- *)

\* C11 as stated: a threshold that is set is greater than 0.
ThresholdPositive == alarm_threshold # None => Val(alarm_threshold) > 0

\* C12: set_alarm_threshold called while the standing water level is not
\* calibrated returns with the threshold unset and the alarm status "not
\* ready"; in every state the threshold is set, and the status is other than
\* "not ready", only if the standing water level is set.
ThresholdNeedsStandingLevel ==
    /\ alarm_threshold # None => standing_water_level # None
    /\ alarm_status # "not ready" => standing_water_level # None
    /\ cb = "thr_835"
       => /\ standing_water_level = None
          /\ alarm_threshold = None
          /\ alarm_status = "not ready"

\* C12 witness: set_alarm_threshold turned away after the air pressure
\* calibration and before the standing water level calibration
ThresholdTurnedAway ==
    /\ cb = "thr_835"
    /\ calibrated_air_pressure # None
    /\ standing_water_level = None

\* a calibrate_swh that is scheduled or running
SwhPending ==
    \/ \E call \in after_calls : call.fn = "calibrate_swh"
    \/ cb \in {"swh_879", "swh_except"}

\* C13: the standing water level is set only if the air pressure is
\* calibrated; the standing depth button is enabled, and a calibrate_swh is
\* scheduled or running, only if the air pressure is calibrated.
StandingLevelNeedsBaseline ==
    /\ standing_water_level # None => calibrated_air_pressure # None
    /\ set_standing_depth_button => calibrated_air_pressure # None
    /\ SwhPending => calibrated_air_pressure # None

\* C13 witness: both calibrations done, before any activation
StandingLevelCalibrated ==
    /\ standing_water_level # None
    /\ standing_water_air_pressure # None
    /\ calibrated_air_pressure # None
    /\ cb = "none"
    /\ activations = 0

\* C14 as stated: the alarm status leaves "activated" only by the first
\* step of reset_alarm; no other step, set_alarm_threshold included, takes
\* the status from "activated" to another value.
ActivatedUntilReset ==
    [][alarm_status = "activated" /\ alarm_status' # "activated"
       => cb = "none" /\ cb' = "reset_474"]_vars

\* what reset_alarm is to leave alone: the threshold, the calibration
\* values and both buffers
ResetFrame ==
    UNCHANGED << alarm_threshold, calibrated_air_pressure,
                 standing_water_level, standing_water_air_pressure,
                 x_points, y_points >>

\* C15: reset_alarm, statement by statement, sets the status to "ready" and
\* alarm_sent to False, then alarm_cooldown to False, then the pressure
\* snapshot to None, then the wave height snapshot to None; when it returns
\* the status is "ready", alarm_cooldown is False and the reset button is
\* disabled; none of its statements changes the threshold, a calibration
\* value or a buffer.
ResetClearsAlarm ==
    [][/\ cb = "none" /\ cb' = "reset_474"
          => /\ alarm_status' = "ready"
             /\ alarm_sent' = FALSE
             /\ ResetFrame
       /\ cb = "reset_474" /\ cb' = "reset_475"
          => /\ alarm_cooldown' = FALSE
             /\ ResetFrame
       /\ cb = "reset_475" /\ cb' = "reset_476"
          => /\ pressure_on_alarm_activate' = None
             /\ ResetFrame
       /\ cb = "reset_476" /\ cb' = "none"
          => /\ wave_height_on_alarm_activate' = None
             /\ alarm_cooldown' = FALSE
             /\ alarm_status' = "ready"
             /\ reset_alarm_button' = FALSE
             /\ ResetFrame]_vars

\* C15 witness: an alert was surfaced and reset_alarm has returned: the
\* latch and the snapshot are cleared, the status is "ready", and the
\* threshold, the calibration values and the buffers are still there
AlarmReset ==
    /\ activations = 1
    /\ unsurfaced = 0
    /\ cb = "none"
    /\ reset_alarm_button = FALSE
    /\ alarm_sent = FALSE
    /\ alarm_cooldown = FALSE
    /\ pressure_on_alarm_activate = None
    /\ wave_height_on_alarm_activate = None
    /\ alarm_status = "ready"
    /\ alarm_threshold # None
    /\ standing_water_level # None
    /\ calibrated_air_pressure # None
    /\ Len(x_points[1]) >= 1

(* ---------------------- properties of the activation ------------------ *)

\* C16 as stated: a sample goes on to activate only if its wave height, the
\* water height minus the standing water level, is strictly greater than
\* the threshold; at the activation the snapshot is that sample's pressure
\* and wave height; and while alarm_sent is True no step of the producer
\* changes the snapshot.
ActivationCapturesSample ==
    [][/\ ppc = "npd_574" /\ ppc' = "npd_581"
          => /\ p_local'.wave_height
                   = p_local.water_height - Val(standing_water_level)
             /\ p_local'.wave_height > Val(alarm_threshold)
       /\ LatchStep
          => /\ pressure_on_alarm_activate' = Some(p_local.pressure)
             /\ wave_height_on_alarm_activate' = Some(p_local.wave_height)
       /\ alarm_sent /\ ppc' # ppc
          => UNCHANGED << pressure_on_alarm_activate,
                          wave_height_on_alarm_activate >>]_vars

\* C17: an iteration of mainloop, with or without an alert to raise, leaves
\* both buffers, the calibration values, the threshold and alarm_sent as
\* they are; a buffer changes, and alarm_sent goes from False to True, only
\* in a step of the producer, with the main thread where it was.
ConsumerTickFrame ==
    [][/\ MainLoopAlarm \/ MainLoopTick
          => UNCHANGED << x_points, y_points, calibrated_air_pressure,
                          standing_water_level, standing_water_air_pressure,
                          alarm_threshold, alarm_sent >>
       /\ x_points' # x_points \/ y_points' # y_points
             \/ (~alarm_sent /\ alarm_sent')
          => ppc' # ppc /\ UNCHANGED << mpc, cb >>]_vars

\* C17 witness: the tick has raised the alert of the one activation, with
\* both buffers filled by the producer and the latch still set
AlertRaisedByTick ==
    /\ activations = 1
    /\ unsurfaced = 0
    /\ alarm_sent
    /\ alarm_cooldown
    /\ alarm_status = "activated"
    /\ reset_alarm_button
    /\ mpc = "mainloop"
    /\ Len(x_points[0]) >= 2
    /\ Len(y_points[1]) >= 2

(* ------------------------ properties of the link ---------------------- *)

\* C18: get_pressure_data gives None for a read that raised, an empty line
\* and a line float() refuses; the poll that got None changes neither the
\* buffers, the calibration values, the threshold, the alarm state nor a
\* widget, and data_loop goes on from it to its next sleep.
DroppedPollIsNoOp ==
    /\ [](\A line \in SerialLines :
             line.kind # "float" => get_pressure_data(line) = None)
    /\ [](ppc = "dl_81" => ENABLED DataLoop_Drop)
    /\ [][/\ ppc = "read" /\ ppc' # ppc /\ ppc' # "add0_x"
             => ppc' = "dl_81" /\ UNCHANGED << shared, widgets, history >>
          /\ ppc = "dl_81" /\ ppc' # ppc
             => ppc' = "sleep" /\ UNCHANGED << shared, widgets, history >>]_vars

\* C18 witness: a poll has come back without a reading while the alarm is
\* activated and the buffers hold samples
PollDropped ==
    /\ ppc = "dl_81"
    /\ serial_COM
    /\ Len(x_points[0]) >= 1
    /\ Len(x_points[1]) >= 1
    /\ alarm_sent
    /\ alarm_threshold # None

\* the send_alarm thread of the call in progress ended without the ALARM
\* command written
DispatchFailure ==
    ppc = "npd_return" /\ p_local.send_alarm_thread \in {"raised", "no link"}

\* C19: the start and the run of the send_alarm thread, whether the command
\* is written, the write raises or the link is gone, change neither
\* alarm_sent, the snapshot, alarm_cooldown nor anything else the dashboard
\* holds; new_pressure_data then returns to data_loop; and with the dispatch
\* failed the mainloop still raises the alert of a latch it has not shown.
DispatchFailureKeepsActivation ==
    /\ [][/\ ppc = "npd_587" /\ ppc' # ppc
             => /\ ppc' = "npd_return"
                /\ UNCHANGED << shared, widgets, activations, latched,
                                 unsurfaced >>
          /\ ppc = "npd_return" /\ ppc' # ppc
             => ppc' = "sleep" /\ UNCHANGED << shared, widgets, history >>]_vars
    /\ [](ppc = "npd_return" => ENABLED NewPressureData_Return)
    /\ [](DispatchFailure /\ InUpdate
             /\ MessageNeeded(alarm_cooldown, alarm_sent)
          => ENABLED MainLoopAlarm)

\* C19 witness: the dispatch has failed, alarm_sent and the snapshot are
\* set, and the mainloop has raised the alert
DispatchFailedAlertRaised ==
    /\ DispatchFailure
    /\ activations = 1
    /\ alarm_sent
    /\ pressure_on_alarm_activate # None
    /\ wave_height_on_alarm_activate # None
    /\ alarm_cooldown
    /\ unsurfaced = 0
    /\ alarm_status = "activated"

\* the main thread is in mainloop with no callback running
MainLoopIdle == mpc = "mainloop" /\ cb = "none"

\* C20: while the producer is inside readline(), whatever the main thread
\* could do with the producer elsewhere it can do now: the mainloop
\* completes its iteration, raising the alert if one is due; the threshold
\* entry and the connect button are served, and so is every other button
\* that is enabled and every timer that is due; a reset_alarm in progress
\* goes on to its next statement.
StalledReadBlocksProducerOnly ==
    ppc = "read"
    => /\ MainLoopIdle
          => /\ ENABLED SetAlarmThreshold
             /\ ENABLED ConnectSerial
             /\ IF MessageNeeded(alarm_cooldown, alarm_sent)
                THEN ENABLED MainLoopAlarm
                ELSE ENABLED MainLoopTick
             /\ reset_alarm_button => ENABLED ResetAlarm_Sent
             /\ pressure_calibrate_button /\ now + CalibrationDelay <= MaxTime
                => ENABLED CalibratePressureButtonPressed
             /\ set_standing_depth_button /\ now + CalibrationDelay <= MaxTime
                => ENABLED CalibrateSwhButtonPressed
             /\ (\E call \in after_calls :
                     call.fn = "calibrate_air_pressure" /\ call.delay = 0)
                => ENABLED (CalibrateAirPressure
                              \/ CalibrateAirPressure_LackOfData)
             /\ (\E call \in after_calls :
                     call.fn = "calibrate_swh" /\ call.delay = 0)
                => ENABLED CalibrateSwh_PressureWindow
       /\ cb = "reset_474" => ENABLED ResetAlarm_Cooldown
       /\ cb = "reset_475" => ENABLED ResetAlarm_Pressure
       /\ cb = "reset_476" => ENABLED ResetAlarm_WaveHeight
       /\ cb \in {"thr_835", "thr_842", "thr_847"}
          => ENABLED SetAlarmThreshold_Return

\* C20 witness: the producer is inside readline() and the main thread is
\* half way through a reset_alarm the user asked for
ResetDuringRead ==
    /\ ppc = "read"
    /\ cb = "reset_475"
    /\ activations = 1
    /\ alarm_threshold # None

(* ------------------- properties of the calibration -------------------- *)

\* C21: the water height graph holds a sample, and the producer is about to
\* append one, only if the air pressure is calibrated; the producer is past
\* the test of line 578, alarm_sent is True, or an activation has happened,
\* only if the air pressure, the standing water level and the threshold are
\* all set.
UncalibratedNeverUsed ==
    /\ (Len(x_points[1]) > 0 \/ Len(y_points[1]) > 0
           \/ ppc \in {"add1_x", "add1_y", "npd_574"})
       => calibrated_air_pressure # None
    /\ (alarm_sent \/ activations > 0
           \/ ppc \in {"npd_581", "npd_582", "npd_584", "npd_587"})
       => /\ calibrated_air_pressure # None
          /\ standing_water_level # None
          /\ alarm_threshold # None

\* C21 witness: a sample came before the air pressure calibration and has
\* no water height, another came after it and has one, and with the
\* standing water level unset neither activated the alarm
SampleBeforeCalibration ==
    /\ ppc = "sleep"
    /\ Len(x_points[0]) = 2
    /\ Len(x_points[1]) = 1
    /\ Len(y_points[1]) = 1
    /\ calibrated_air_pressure # None
    /\ standing_water_level = None
    /\ activations = 0

(* --------------------- properties of the statistics ------------------- *)

\* the values data_period_var has when update_statistics reads it: the
\* shortest period and the default
StatPeriods == {MinDataPeriod, DefaultDataPeriod}

\* what update_statistics works out in this state for a data period
Statistics(data_period) ==
    update_statistics(x_points, y_points, now, data_period,
                      standing_water_level)

\* the samples of the water height graph, each appended as one pair, that
\* are no older than the data period
WaterHeightsInWindow(data_period) ==
    {i \in 1..Len(x_points[1]) :
        i <= Len(y_points[1]) /\ x_points[1][i] >= now - data_period}

ClampAtZero(v) == IF v < 0 THEN 0 ELSE v

\* C22 as stated: when the mainloop runs update_statistics with the
\* standing water level set and a window that is not empty, the current
\* wave height is the water height of the last sample appended that is no
\* older than the data period, minus the standing water level and not below
\* 0, and the peak wave height is the greatest water height of those
\* samples, minus the standing water level and not below 0.
CurrentWaveHeightFromWindow ==
    MainLoopIdle
    => \A data_period \in StatPeriods :
          LET st == Statistics(data_period)
              window == WaterHeightsInWindow(data_period)
          IN  Len(st.water_height_ys) > 0 /\ standing_water_level # None
              => /\ window # {}
                 /\ \E last \in window :
                       /\ \A i \in window : i <= last
                       /\ st.current_wave_height
                            = Some(ClampAtZero(y_points[1][last]
                                                 - Val(standing_water_level)))
                 /\ \E peak \in window :
                       /\ \A i \in window :
                             y_points[1][i] <= y_points[1][peak]
                       /\ st.max_wave_height
                            = Some(ClampAtZero(y_points[1][peak]
                                                 - Val(standing_water_level)))

\* pressure windows beyond what the sensor sends here: below the default
\* range, inside it and above it
StatPressureWindows ==
    LET values == {99000, 100000, 103000}
    IN  {<< a >> : a \in values}
            \cup {<< a, b >> : a \in values, b \in values}

\* the y limits are set, hold the default range, and hold every value of
\* the window with the buffer below it and above it
YlimHolds(ylim, default, values, below, above) ==
    /\ ylim # None
    /\ Val(ylim)[1] <= default[1]
    /\ Val(ylim)[2] >= default[2]
    /\ \A i \in 1..Len(values) :
          /\ Val(ylim)[1] <= values[i] - below
          /\ Val(ylim)[2] >= values[i] + above

\* C23: when the mainloop runs update_statistics, a graph whose window is
\* not empty gets y limits that hold its default range and every window
\* value with the buffer added (pressure: 5 below the least and 5 above the
\* greatest; water height: 2.5 above the greatest); the same for pressure
\* windows below, inside and above the default range.
YlimHoldsDefaultAndWindow ==
    /\ \A pressure_ys \in StatPressureWindows :
          YlimHolds(pressure_ylim(pressure_ys), pressure_graph_default_ylim,
                    pressure_ys, pressure_graph_ylim_buffer,
                    pressure_graph_ylim_buffer)
    /\ MainLoopIdle
       => \A data_period \in StatPeriods :
             LET st == Statistics(data_period)
             IN  /\ Len(st.pressure_ys) > 0
                    => YlimHolds(st.pressure_ylim,
                                 pressure_graph_default_ylim, st.pressure_ys,
                                 pressure_graph_ylim_buffer,
                                 pressure_graph_ylim_buffer)
                 /\ Len(st.water_height_ys) > 0
                    => YlimHolds(st.water_height_ylim,
                                 water_height_graph_default_ylim,
                                 st.water_height_ys, 0,
                                 water_height_graph_ylim_buffer)

\* C23 witness: update_statistics is due with two samples in each window,
\* a pressure and a water height of which lie above the default ranges
YlimStretched ==
    /\ MainLoopIdle
    /\ ppc = "sleep"
    /\ LET st == Statistics(DefaultDataPeriod)
       IN  /\ Len(st.pressure_ys) >= 2
           /\ Len(st.water_height_ys) >= 2
           /\ Val(st.pressure_ylim)[2] > pressure_graph_default_ylim[2]
           /\ Val(st.pressure_ylim)[1] = pressure_graph_default_ylim[1]
           /\ Val(st.water_height_ylim)[2]
                 > water_height_graph_default_ylim[2]

\* a data period the windows may use: a multiple of 5 from 5 to 60
DataPeriodAllowed(data_period) ==
    /\ data_period % 5 = 0
    /\ data_period >= MinDataPeriod
    /\ data_period <= MaxDataPeriod

\* C24: the data period starts at 15, a multiple of 5 from 5 to 60, and
\* for every slider value from 5 to 60 data_period_change stores a multiple
\* of 5 from 5 to 60 that is at most 2 away from the slider value.
DataPeriodSnapped ==
    /\ DefaultDataPeriod = 15
    /\ DataPeriodAllowed(DefaultDataPeriod)
    /\ probe.op = "data_period_change"
       => /\ DataPeriodAllowed(probe.data_period_var)
          /\ probe.data_period_var - probe.period <= 2
          /\ probe.period - probe.data_period_var <= 2

\* C24 witness: a slider value that is no multiple of 5 was rounded up
DataPeriodRoundedUp ==
    /\ probe.op = "data_period_change"
    /\ probe.period = 58
    /\ probe.data_period_var = 60

(* ------------------- properties of the threshold line ----------------- *)

\* C25: whenever the standing water level and the alarm threshold are both
\* set, the threshold reference line of the water-height graph lies at
\* standing_water_level + alarm_threshold for their current values, also
\* after the standing level was calibrated again with the threshold set.
ThresholdLineFollowsStandingLevel ==
    (standing_water_level # None /\ alarm_threshold # None)
        => alarm_threshold_line
               = Val(standing_water_level) + Val(alarm_threshold)

(* ---------------- properties of the interleaved threads --------------- *)

\* C26: whenever the mainloop surfaces an alert (window_activate_alarm and
\* alarm_pop_up), both parts of the snapshot are present, and they are the
\* pressure and wave height of the sample whose activation is surfaced
\* (compared while the producer still holds that sample), however the
\* producer's activation is interleaved with the statements of reset_alarm.
SurfacedSnapshotIsActivatingSample ==
    [][MainLoopAlarm
          => /\ pressure_on_alarm_activate # None
             /\ wave_height_on_alarm_activate # None
             /\ ppc \in {"npd_587", "npd_return"}
                   => /\ pressure_on_alarm_activate = Some(p_local.pressure)
                      /\ wave_height_on_alarm_activate
                             = Some(p_local.wave_height)]_vars

\* the samples of graph i of which both the time and the value are appended
AppendedPairs(i) ==
    {<< x_points[i][k], y_points[i][k] >> :
        k \in {j \in 1..Len(x_points[i]) : j <= Len(y_points[i])}}

\* the pairs of a window as get_data_within_last_x returns it
WindowPairs(xs, ys) == {<< xs[k], ys[k] >> : k \in 1..Len(xs)}

\* C27: wherever the producer stands between its appends, every (time,
\* value) pair that a query of the main thread returns, by get_data_point
\* for any index or by get_data_within_last_x for the windows of
\* update_statistics and of the calibrations, is a sample that the producer
\* appended as one pair.
QueriesReturnAppendedPairs ==
    (mpc = "mainloop" /\ cb = "none")
        => /\ \A i \in 0..1, index \in 1..MaxSamples :
                 LET point == get_data_point(x_points[i], y_points[i], index)
                 IN  point[1] # None
                        => << Val(point[1]), Val(point[2]) >>
                               \in AppendedPairs(i)
           /\ \A data_period \in StatPeriods :
                 LET s == Statistics(data_period)
                 IN  /\ WindowPairs(s.pressure_xs, s.pressure_ys)
                            \subseteq AppendedPairs(0)
                     /\ WindowPairs(s.water_height_xs, s.water_height_ys)
                            \subseteq AppendedPairs(1)
           /\ \A i \in 0..1 :
                 LET window == get_data_within_last_x(x_points[i], y_points[i],
                                   now - CalibrationLength)
                 IN  WindowPairs(window[1], window[2])
                        \subseteq AppendedPairs(i)

\* C28: in every state in which no calibration of the standing water level
\* is scheduled or running, standing_water_level is set if and only if
\* standing_water_air_pressure is set (the two are assigned by one run of
\* calibrate_swh), also when the producer appends a sample between the two
\* window queries of calibrate_swh.
StandingLevelSetWithItsPressure ==
    (cb = "none" /\ ~SwhPending)
        => (standing_water_level # None
                <=> standing_water_air_pressure # None)

(* ------------------------ properties of the link ---------------------- *)

\* C29: a sample is appended to a buffer only while the link is connected:
\* both buffers stay empty until a connect has succeeded, a failed connect
\* clears the link, also when it was connected before, and from then until
\* a later connect succeeds no step appends to either buffer.
AppendsOnlyWhileConnected ==
    [][/\ (x_points' # x_points \/ y_points' # y_points) => serial_COM
       /\ (~serial_COM /\ serial_COM') => ConnectSerial]_vars

(* --------------- properties of the calibration controls --------------- *)

\* C30: an air-pressure calibration that finds no sample in its window
\* goes to its lack-of-data handler and returns with the calibrate button
\* and the standing depth button as they were, the first not enabled again
\* and the second not enabled; the calibrate button goes from disabled to
\* enabled only in a connect that succeeds or in an air-pressure
\* calibration that succeeds.
FailedAirCalibrationLeavesControls ==
    [][/\ ((cb' = "air_except" /\ cb # "air_except")
              \/ (cb = "air_except" /\ cb' # "air_except"))
          => UNCHANGED << pressure_calibrate_button,
                          set_standing_depth_button >>
       /\ (~pressure_calibrate_button /\ pressure_calibrate_button')
          => \/ ConnectSerial /\ serial_COM'
             \/ CalibrateAirPressure /\ calibrated_air_pressure' # None
                    /\ cb' = "none"]_vars

\* C30 witness: a calibration has found its window empty, the link is
\* connected and both buttons are disabled
AirCalibrationFailed ==
    /\ cb = "air_except"
    /\ serial_COM
    /\ ~pressure_calibrate_button
    /\ ~set_standing_depth_button

====
